---- MODULE Spec2Model ----
(***************************************************************************)
(* The encrypted CRUD handler (src/unnamed/part_000, lines 51-287) over a  *)
(* DynamoDB table keyed by id.  One action per HTTP method branch of the   *)
(* handler; every action serves one whole request: it reads the event,     *)
(* issues the storage calls the code issues and produces the response.     *)
(*                                                                         *)
(* JavaScript values are tagged records: [str |-> <<chars>>] is a string,  *)
(* [num |-> n] a number, [nan |-> TRUE] is NaN, [undef |-> TRUE] is        *)
(* undefined (a key that is not there).  Strings are sequences of UTF-16   *)
(* code units, each written as a TLA+ string; buffers are sequences of     *)
(* bytes 0..255.                                                           *)
(*                                                                         *)
(* The storage backend is modelled as a table that answers every call      *)
(* (put, scan, conditional update, delete) as DynamoDB specifies it; the   *)
(* 500 responses of the model are the ones the handler's own code raises.  *)
(*                                                                         *)
(* An invocation context serves one event at a time: a handler action      *)
(* takes an event while no event is being served (req = NoEvent) and       *)
(* leaves the event, its response and the storage calls it issued in req,  *)
(* resp and calls; Return hands the response back and frees the context.   *)
(*                                                                         *)
(* Spec is the encrypted handler alone on an initially empty table.        *)
(* SpecShared is the same table also written by the plain handler of       *)
(* src/lambda/handler.ts, which stores name, stock and price as given.     *)
(* SpecCodec applies encrypt and then decrypt to a string (codec).         *)
(* SpecRows is the read path over tables of arbitrary stored rows.         *)
(* SpecStartup is the module initialisation on any value of                *)
(* AES_SECRET_KEY, followed by requests (boot).                            *)
(* SpecConcurrent is two invocation contexts serving PUT requests on the   *)
(* same table, interleaved at their storage calls (inflight).              *)
(***************************************************************************)
EXTENDS Integers, Sequences, FiniteSets, TLC

VARIABLES table, nextUuid, req, resp, calls, codec, boot, inflight

vars == <<table, nextUuid, req, resp, calls, codec, boot, inflight>>

\* What the handler of a started process, serving one event at a time,
\* leaves alone: the codec exercise, the module initialisation and the
\* requests of other invocation contexts.
others == <<codec, boot, inflight>>

\* ------------------------------------------------------------------------
\* Bounds of the model
\* ------------------------------------------------------------------------

\* Number of identifiers uuidv4() hands out in one behaviour.
MaxIds == 2

\* Longest string of SpecCodec that is enumerated over its whole alphabet.
MaxTextLen == 2

\* ------------------------------------------------------------------------
\* JavaScript values
\* ------------------------------------------------------------------------

Undefined == [undef |-> TRUE]

NaN == [nan |-> TRUE]

Str(s) == [str |-> s]

Num(n) == [num |-> n]

IsStr(v) == "str" \in DOMAIN v

IsNum(v) == "num" \in DOMAIN v

IsUndefined(v) == "undef" \in DOMAIN v

\* !v of JavaScript, on the values of the model.
Falsy(v) ==
  \/ IsUndefined(v)
  \/ "nan" \in DOMAIN v
  \/ IsStr(v) /\ v.str = <<>>
  \/ IsNum(v) /\ v.num = 0

\* ------------------------------------------------------------------------
\* Characters, bytes, hex
\* ------------------------------------------------------------------------

Digits == <<"0", "1", "2", "3", "4", "5", "6", "7", "8", "9">>

HexChars == Digits \o <<"a", "b", "c", "d", "e", "f">>

\* The characters strings of the model are made of, in code order:
\* "0".."9" are 48..57, ":" is 58, "a".."f" are 97..102.
Chars == Digits \o <<":">> \o <<"a", "b", "c", "d", "e", "f">>

IndexIn(seq, c) == CHOOSE i \in 1..Len(seq) : seq[i] = c

CharCode == [c \in {Chars[i] : i \in 1..Len(Chars)} |->
               LET i == IndexIn(Chars, c) IN IF i <= 11 THEN 47 + i ELSE 85 + i]

\* Two code units outside that alphabet: an unpaired high surrogate
\* (U+D800 with no low surrogate after it), which a JavaScript string can
\* hold, and the replacement character U+FFFD.
LoneSurrogate == "D800"

ReplacementChar == "FFFD"

\* UTF-8 of U+FFFD: ef bf bd.
ReplacementBytes == <<239, 191, 189>>

\* Buffer.toString(): a byte of the model's alphabet is its character, any
\* other byte is shown as U+FFFD.
ByteChar(b) ==
  IF b >= 48 /\ b <= 58 THEN Chars[b - 47]
  ELSE IF b >= 97 /\ b <= 102 THEN Chars[b - 85]
  ELSE ReplacementChar

\* UTF-8 of one code unit: an ASCII unit is its code; U+FFFD is ef bf bd,
\* and so is an unpaired surrogate, which UTF-8 cannot encode.
Utf8Unit(c) ==
  IF c \in DOMAIN CharCode THEN <<CharCode[c]>> ELSE ReplacementBytes

\* Buffer.from(text) / cipher.update(text): the UTF-8 bytes of a string.
RECURSIVE Utf8Encode(_)
Utf8Encode(s) ==
  IF s = <<>> THEN <<>> ELSE Utf8Unit(Head(s)) \o Utf8Encode(Tail(s))

\* buf.toString(): the string of UTF-8 bytes.
RECURSIVE Utf8Decode(_)
Utf8Decode(bytes) ==
  IF bytes = <<>> THEN <<>>
  ELSE IF Len(bytes) >= 3 /\ SubSeq(bytes, 1, 3) = ReplacementBytes
  THEN <<ReplacementChar>> \o Utf8Decode(SubSeq(bytes, 4, Len(bytes)))
  ELSE <<ByteChar(Head(bytes))>> \o Utf8Decode(Tail(bytes))

IsHexChar(c) == \E i \in 1..16 : HexChars[i] = c

HexVal(c) == IndexIn(HexChars, c) - 1

\* buf.toString('hex'): two lowercase hex digits per byte.
HexEncode(bytes) ==
  [i \in 1..(2 * Len(bytes)) |->
     LET b == bytes[(i + 1) \div 2]
     IN  IF i % 2 = 1 THEN HexChars[(b \div 16) + 1] ELSE HexChars[(b % 16) + 1]]

\* Number of leading complete pairs of hex digits of s.
RECURSIVE HexPairs(_, _)
HexPairs(s, n) ==
  IF 2 * n + 2 <= Len(s) /\ IsHexChar(s[2 * n + 1]) /\ IsHexChar(s[2 * n + 2])
  THEN HexPairs(s, n + 1)
  ELSE n

\* Buffer.from(s, 'hex'): decodes pairs of hex digits and stops, without
\* raising, at the first pair that is not hex or is incomplete.
HexDecode(s) ==
  [i \in 1..HexPairs(s, 0) |-> 16 * HexVal(s[2 * i - 1]) + HexVal(s[2 * i])]

\* ------------------------------------------------------------------------
\* Cipher: aes-256-cbc with a fresh iv per call
\* ------------------------------------------------------------------------

IV_LENGTH == 16

\* Bytes of an aes-256 key.
KEY_LENGTH == 32

\* process.env.AES_SECRET_KEY of the running process: 64 hex characters.
secretKey == [i \in 1..(2 * KEY_LENGTH) |-> HexChars[((5 * i + 3) % 16) + 1]]

ENCRYPTION_KEY == HexDecode(secretKey)

\* crypto.randomBytes(IV_LENGTH): two of the 2^128 values it can return.
RandomBytes ==
  { [i \in 1..IV_LENGTH |-> (17 * i) % 256],
    [i \in 1..IV_LENGTH |-> (171 + 29 * i) % 256] }

RECURSIVE XorByte(_, _)
XorByte(a, b) ==
  IF a = 0 THEN b
  ELSE IF b = 0 THEN a
  ELSE ((a + b) % 2) + 2 * XorByte(a \div 2, b \div 2)

XorBlock(x, y) == [i \in 1..IV_LENGTH |-> XorByte(x[i], y[i])]

\* The block permutation under the key.  AES itself is the library's; the
\* model keeps what the handler relies on: a keyed bijection on blocks.
BlockEncrypt(key, block) ==
  [i \in 1..IV_LENGTH |-> (block[i] + key[i] + 3 * key[i + IV_LENGTH]) % 256]

BlockDecrypt(key, block) ==
  [i \in 1..IV_LENGTH |->
     (block[i] + 1024 - key[i] - 3 * key[i + IV_LENGTH]) % 256]

\* PKCS#7: n bytes of value n, 1 <= n <= 16, up to a whole block.
Pkcs7Pad(bytes) ==
  LET n == IV_LENGTH - (Len(bytes) % IV_LENGTH)
  IN  bytes \o [i \in 1..n |-> n]

Pkcs7Valid(bytes) ==
  /\ Len(bytes) > 0
  /\ Len(bytes) % IV_LENGTH = 0
  /\ LET n == bytes[Len(bytes)]
     IN  /\ n >= 1
         /\ n <= IV_LENGTH
         /\ \A i \in (Len(bytes) - n + 1)..Len(bytes) : bytes[i] = n

\* A decipher that strips one byte whatever the padding says.
Pkcs7UnpadOneByte(bytes) == SubSeq(bytes, 1, Len(bytes) - 1)

Pkcs7Unpad(bytes) == SubSeq(bytes, 1, Len(bytes) - bytes[Len(bytes)])

RECURSIVE CbcEncrypt(_, _, _)
CbcEncrypt(key, prev, data) ==
  IF data = <<>> THEN <<>>
  ELSE LET c == BlockEncrypt(key, XorBlock(SubSeq(data, 1, IV_LENGTH), prev))
       IN  c \o CbcEncrypt(key, c, SubSeq(data, IV_LENGTH + 1, Len(data)))

RECURSIVE CbcDecrypt(_, _, _)
CbcDecrypt(key, prev, data) ==
  IF data = <<>> THEN <<>>
  ELSE LET c == SubSeq(data, 1, IV_LENGTH)
       IN  XorBlock(BlockDecrypt(key, c), prev)
             \o CbcDecrypt(key, c, SubSeq(data, IV_LENGTH + 1, Len(data)))

\* encrypt(text) with the iv that randomBytes returned: hex(iv):hex(ct).
encrypt(text, iv) ==
  HexEncode(iv) \o <<":">>
    \o HexEncode(CbcEncrypt(ENCRYPTION_KEY, iv, Pkcs7Pad(Utf8Encode(text))))

\* A raised exception, as the value of a call that did not return.
Thrown == [threw |-> TRUE]

IsThrown(v) == "threw" \in DOMAIN v

\* Position of the first ':' of s, or Len(s) + 1.
RECURSIVE FirstColon(_, _)
FirstColon(s, i) ==
  IF i > Len(s) \/ s[i] = ":" THEN i ELSE FirstColon(s, i + 1)

\* decrypt(text): text.split(':') raises on a value that is no string;
\* createDecipheriv raises on an iv that is not IV_LENGTH bytes; final()
\* raises on a ciphertext that is empty, not whole blocks or badly padded.
decrypt(text) ==
  IF ~IsStr(text) THEN Thrown
  ELSE LET c    == FirstColon(text.str, 1)
           iv   == HexDecode(SubSeq(text.str, 1, c - 1))
           enc  == HexDecode(SubSeq(text.str, c + 1, Len(text.str)))
           padded == CbcDecrypt(ENCRYPTION_KEY, iv, enc)
       IN  IF Len(iv) # IV_LENGTH THEN Thrown
           ELSE IF Len(enc) = 0 \/ Len(enc) % IV_LENGTH # 0 THEN Thrown
           ELSE IF ~Pkcs7Valid(padded) THEN Thrown
           ELSE Str(Utf8Decode(Pkcs7Unpad(padded)))

\* String(n) of a non-negative integer.
RECURSIVE DecimalString(_)
DecimalString(n) ==
  IF n < 10 THEN <<Digits[n + 1]>>
  ELSE DecimalString(n \div 10) \o <<Digits[(n % 10) + 1]>>

\* String(v): a string is itself, a number is its decimal form.
String(v) == IF IsStr(v) THEN v.str ELSE DecimalString(v.num)

IsDigit(c) == \E i \in 1..10 : Digits[i] = c

RECURSIVE DecimalValue(_, _)
DecimalValue(s, acc) ==
  IF s = <<>> THEN acc
  ELSE DecimalValue(Tail(s), 10 * acc + (IndexIn(Digits, Head(s)) - 1))

\* Number(s) of a string: "" is 0, decimal digits are their value, anything
\* else of the model's alphabet is NaN.
Number(s) ==
  IF \A i \in 1..Len(s) : IsDigit(s[i]) THEN Num(DecimalValue(s, 0)) ELSE NaN

\* ------------------------------------------------------------------------
\* Values of the request fields, and the cipher over them
\* ------------------------------------------------------------------------

\* JSON values of the body keys; Undefined is a key that is not supplied.
NameInputs == {Undefined, Str(<<>>), Str(<<"a", "b">>)}

StockInputs == {Undefined, Num(0), Num(1)}

PriceInputs == {Undefined, Num(0)}

\* The texts the handler can pass to encrypt on these inputs.
Plaintexts ==
  {String(v) : v \in (NameInputs \cup StockInputs \cup PriceInputs) \ {Undefined}}

\* encrypt and decrypt are computed once for the texts and ivs of the model:
\* CipherTable holds encrypt(text, iv), PlainTable holds decrypt of each of
\* these cipher strings.  CipherOf and PlainOf look a call up and fall back
\* on the function itself for any other argument.
CipherTable ==
  {[text |-> p, iv |-> iv, cipher |-> encrypt(p, iv)] :
     p \in Plaintexts, iv \in RandomBytes}

CipherOf(text, iv) ==
  IF \E e \in CipherTable : e.text = text /\ e.iv = iv
  THEN (CHOOSE e \in CipherTable : e.text = text /\ e.iv = iv).cipher
  ELSE encrypt(text, iv)

PlainTable ==
  {[cipher |-> Str(e.cipher), plain |-> decrypt(Str(e.cipher))] :
     e \in CipherTable}

PlainOf(v) ==
  IF \E e \in PlainTable : e.cipher = v
  THEN (CHOOSE e \in PlainTable : e.cipher = v).plain
  ELSE decrypt(v)

\* A decryptItem that recovers field by field: a field that does not
\* decrypt stays raw, the others are decrypted.
decryptItemPerField(item) ==
  LET n == PlainOf(item.name)
      s == PlainOf(item.stock)
      p == PlainOf(item.price)
  IN  [id |-> item.id,
       name |-> IF IsThrown(n) THEN item.name ELSE n,
       stock |-> IF IsThrown(s) THEN item.stock ELSE Number(s.str),
       price |-> IF IsThrown(p) THEN item.price ELSE Number(p.str)]

\* const decryptItem = (item) => { try { return {...item, name:
\* decrypt(item.name), stock: Number(decrypt(item.stock)), price:
\* Number(decrypt(item.price))} } catch { return item } }
decryptItem(item) ==
  LET n == PlainOf(item.name)
      s == PlainOf(item.stock)
      p == PlainOf(item.price)
  IN  IF IsThrown(n) \/ IsThrown(s) \/ IsThrown(p) THEN item
      ELSE [id |-> item.id, name |-> n, stock |-> Number(s.str),
            price |-> Number(p.str)]

\* ------------------------------------------------------------------------
\* The table and the storage calls
\* ------------------------------------------------------------------------

\* uuidv4(): the n-th identifier generated; never the same one twice.
uuidv4(n) == <<"a", Digits[n + 1]>>

Keys == {uuidv4(n) : n \in 1..MaxIds}

\* No item under a key; also the Attributes of a call that returns none.
NoRow == [absent |-> TRUE]

IsRow(r) == "id" \in DOMAIN r

Lookup(t, k) == IF k \in DOMAIN t THEN t[k] ELSE NoRow

Fields == {"name", "stock", "price"}

NoValues == [name |-> Undefined, stock |-> Undefined, price |-> Undefined]

\* A record of one call to the DocumentClient.
Call(op, key, assigned, values) ==
  [op |-> op, key |-> key, assigned |-> assigned, values |-> values]

\* dynamoDb.put({Item}): writes the item under its id, unconditionally.
DynamoPut(t, item) == [t EXCEPT ![item.id.str] = item]

\* dynamoDb.scan({TableName}): every item of the table.
DynamoScan(t) == {t[k] : k \in {j \in DOMAIN t : IsRow(t[j])}}

\* The item after SET of the assigned attributes.
UpdatedRow(row, assigned, values) ==
  [f \in DOMAIN row |-> IF f \in assigned THEN values[f] ELSE row[f]]

\* dynamoDb.update({Key, UpdateExpression: SET ..., ConditionExpression:
\* attribute_exists(id), ReturnValues: ALL_NEW}): fails the condition when no
\* item has the key, else assigns and returns the new item.
DynamoUpdate(t, key, assigned, values) ==
  IF ~IsRow(Lookup(t, key))
  THEN [failed |-> TRUE, table |-> t, Attributes |-> NoRow]
  ELSE LET new == UpdatedRow(t[key], assigned, values)
       IN  [failed |-> FALSE, table |-> [t EXCEPT ![key] = new],
            Attributes |-> new]

DynamoDeleteKeepsItem(t, key) ==
  [table |-> t, Attributes |-> Lookup(t, key)]

\* dynamoDb.delete({Key, ReturnValues: ALL_OLD}): unconditional; returns the
\* item that was there, or no Attributes.
DynamoDelete(t, key) ==
  IF ~IsRow(Lookup(t, key))
  THEN [table |-> t, Attributes |-> NoRow]
  ELSE [table |-> [t EXCEPT ![key] = NoRow], Attributes |-> t[key]]

\* ------------------------------------------------------------------------
\* Events and responses
\* ------------------------------------------------------------------------

\* event.queryStringParameters is null when the URL carries no parameter.
NullQuery == [isNull |-> TRUE, id |-> Undefined, name |-> Undefined]

Query(id, name) == [isNull |-> FALSE, id |-> id, name |-> name]

\* event.body: text is "absent" for null, "empty" for the empty string,
\* "invalid" for text that is no JSON, "null" for the JSON text null and
\* "object" for a JSON object, whose keys name, stock, price follow.
Body(text, name, stock, price) ==
  [text |-> text, name |-> name, stock |-> stock, price |-> price]

NoBody == Body("absent", Undefined, Undefined, Undefined)

ObjectBody(name, stock, price) == Body("object", name, stock, price)

\* const { name, stock, price } = JSON.parse(event.body): JSON.parse raises
\* on "" and on text that is no JSON; it returns null for null and for the
\* text null, and destructuring null raises.
ParseFields(body) ==
  IF body.text = "object"
  THEN [name |-> body.name, stock |-> body.stock, price |-> body.price]
  ELSE Thrown

Event(method, query, body) ==
  [httpMethod |-> method, queryStringParameters |-> query, body |-> body]

NoItem == [none |-> TRUE]

\* headers: { 'Access-Control-Allow-Origin': '*',
\*            'Access-Control-Allow-Headers': 'Content-Type,Authorization' }
CorsHeaders == {"Access-Control-Allow-Origin", "Access-Control-Allow-Headers"}

Response(status, headers, error, item, items) ==
  [statusCode |-> status, headers |-> headers, error |-> error,
   item |-> item, items |-> items]

ErrorResponse(status, error) == Response(status, CorsHeaders, error, NoItem, {})

ItemResponse(status, item) == Response(status, CorsHeaders, "", item, {})

ItemsResponse(status, items) == Response(status, CorsHeaders, "", NoItem, items)

\* return { statusCode: 405, body: ... }: the fallthrough of the handler.
MethodNotAllowedResponse ==
  Response(405, {}, "Method not allowed", NoItem, {})

\* ------------------------------------------------------------------------
\* The handler, one operator per method branch
\* ------------------------------------------------------------------------

\* What serving one event comes to: the response, the table after it, the
\* storage calls issued, and the number of the next identifier.
Outcome(response, t, issued, n) ==
  [resp |-> response, table |-> t, calls |-> issued, uuid |-> n]

\* if (!name || stock === undefined || price === undefined)
PostMissing(f) ==
  Falsy(f.name) \/ IsUndefined(f.stock) \/ IsUndefined(f.price)

NewItemPlainName(id, f, iv) ==
  [id    |-> Str(id),
   name  |-> f.name,
   stock |-> Str(CipherOf(String(f.stock), iv["stock"])),
   price |-> Str(CipherOf(String(f.price), iv["price"]))]

\* const newItem = { id, name: encrypt(name), stock: encrypt(String(stock)),
\*                   price: encrypt(String(price)) }
NewItem(id, f, iv) ==
  [id    |-> Str(id),
   name  |-> Str(CipherOf(f.name.str, iv["name"])),
   stock |-> Str(CipherOf(String(f.stock), iv["stock"])),
   price |-> Str(CipherOf(String(f.price), iv["price"]))]

RowValues(row) == [f \in Fields |-> row[f]]

\* POST /items
HandlePost(t, n, body, iv) ==
  LET f == ParseFields(body)
  IN  IF IsThrown(f)
      THEN Outcome(ErrorResponse(500, "Failed to create item"), t, <<>>, n)
      ELSE IF PostMissing(f)
      THEN Outcome(ErrorResponse(400, "Missing required fields: name, stock, price"),
                   t, <<>>, n)
      ELSE LET uniqueId == uuidv4(n)
               newItem == NewItem(uniqueId, f, iv)
           IN  Outcome(ItemResponse(201, [id |-> Str(uniqueId), name |-> f.name,
                                          stock |-> f.stock, price |-> f.price]),
                       DynamoPut(t, newItem),
                       <<Call("put", uniqueId, Fields, RowValues(newItem))>>,
                       n + 1)

\* String.prototype.includes
Includes(s, f) ==
  \E i \in 0..(Len(s) - Len(f)) : SubSeq(s, i + 1, i + Len(f)) = f

\* GET /items, GET /items?name=...: item.name.includes(name) raises on an
\* item whose name is no string.
HandleGet(t, n, query) ==
  LET name == IF query.isNull THEN Undefined ELSE query.name
      items == {decryptItem(r) : r \in DynamoScan(t)}
      scan == <<Call("scan", <<>>, {}, NoValues)>>
  IN  IF Falsy(name)
      THEN Outcome(ItemsResponse(200, items), t, scan, n)
      ELSE IF \E item \in items : ~IsStr(item.name)
      THEN Outcome(ErrorResponse(500, "Failed to retrieve items"), t, scan, n)
      ELSE Outcome(ItemsResponse(200,
                     {item \in items : Includes(item.name.str, name.str)}),
                   t, scan, n)

\* if (name) ...; if (stock !== undefined) ...; if (price !== undefined) ...
UpdateAssigned(f) ==
  {x \in Fields :
     \/ x = "name" /\ ~Falsy(f.name)
     \/ x = "stock" /\ ~IsUndefined(f.stock)
     \/ x = "price" /\ ~IsUndefined(f.price)}

\* expressionAttributeValues: the encrypted value of each assigned field.
ExpressionValues(f, assigned, iv) ==
  [x \in Fields |->
     IF x \in assigned THEN Str(CipherOf(String(f[x]), iv[x])) ELSE Undefined]

NoFieldsUnchecked(assigned) == FALSE

\* if (updateExpression.length === 0)
NoFields(assigned) == assigned = {}

\* PUT /items?id=...: destructuring a null queryStringParameters raises.
HandlePut(t, n, query, body, iv) ==
  IF query.isNull
  THEN Outcome(ErrorResponse(500, "Failed to update item"), t, <<>>, n)
  ELSE IF Falsy(query.id)
  THEN Outcome(ErrorResponse(400, "Missing required query parameter: id"),
               t, <<>>, n)
  ELSE IF body.text \in {"absent", "empty"}
  THEN Outcome(ErrorResponse(400, "Request body is empty"), t, <<>>, n)
  ELSE LET f == ParseFields(body)
       IN  IF IsThrown(f)
           THEN Outcome(ErrorResponse(500, "Failed to update item"), t, <<>>, n)
           ELSE LET assigned == UpdateAssigned(f)
                    values == ExpressionValues(f, assigned, iv)
                    update == <<Call("update", query.id.str, assigned, values)>>
                    result == DynamoUpdate(t, query.id.str, assigned, values)
                IN  IF NoFields(assigned)
                    THEN Outcome(ErrorResponse(400, "No fields to update"),
                                 t, <<>>, n)
                    ELSE IF result.failed
                    THEN Outcome(ErrorResponse(404, "Item not found"),
                                 result.table, update, n)
                    ELSE Outcome(ItemResponse(200, decryptItem(result.Attributes)),
                                 result.table, update, n)

\* DELETE /items?id=...: destructuring a null queryStringParameters raises.
HandleDelete(t, n, query) ==
  IF query.isNull
  THEN Outcome(ErrorResponse(500, "Failed to delete item"), t, <<>>, n)
  ELSE IF Falsy(query.id)
  THEN Outcome(ErrorResponse(400, "Missing required query parameter: id"),
               t, <<>>, n)
  ELSE LET result == DynamoDelete(t, query.id.str)
           delete == <<Call("delete", query.id.str, {}, NoValues)>>
       IN  IF ~IsRow(result.Attributes)
           THEN Outcome(ErrorResponse(404, "Item not found"),
                        result.table, delete, n)
           ELSE Outcome(ItemResponse(200, decryptItem(result.Attributes)),
                        result.table, delete, n)

\* ------------------------------------------------------------------------
\* Events
\* ------------------------------------------------------------------------

Bodies ==
  {Body(text, Undefined, Undefined, Undefined) :
     text \in {"absent", "empty", "invalid", "null"}}
  \cup {ObjectBody(name, stock, price) :
          name \in NameInputs, stock \in StockInputs, price \in PriceInputs}

\* A PUT that carries no id returns before it reads the body: these two
\* bodies stand for all of them there.
UnreadBodies == {NoBody, ObjectBody(Str(<<"a", "b">>), Num(0), Undefined)}

IdInputs == {Undefined, Str(<<>>)} \cup {Str(k) : k \in Keys}

IdQueries == {NullQuery} \cup {Query(id, Undefined) : id \in IdInputs}

FilterInputs == {Undefined, Str(<<>>), Str(<<"a">>), Str(<<"c">>)}

FilterQueries == {NullQuery} \cup {Query(Undefined, name) : name \in FilterInputs}

OtherMethods == {"PATCH"}

DefaultIv == CHOOSE iv \in RandomBytes : TRUE

\* One draw of randomBytes for each field that gets encrypted.
IvChoices(encrypted) ==
  {iv \in [Fields -> RandomBytes] :
     \A x \in Fields \ encrypted : iv[x] = DefaultIv}

\* The fields a POST with this body encrypts.
PostEncrypts(body) ==
  LET f == ParseFields(body)
  IN  IF IsThrown(f) THEN {} ELSE IF PostMissing(f) THEN {} ELSE Fields

\* The fields a PUT with this query and body encrypts.
PutEncrypts(query, body) ==
  LET f == ParseFields(body)
  IN  IF query.isNull THEN {}
      ELSE IF Falsy(query.id) THEN {}
      ELSE IF body.text \in {"absent", "empty"} THEN {}
      ELSE IF IsThrown(f) THEN {}
      ELSE UpdateAssigned(f)

\* ------------------------------------------------------------------------
\* The state machine
\* ------------------------------------------------------------------------

NoEvent == Event("NONE", NullQuery, NoBody)

NoResponse == Response(0, {}, "", NoItem, {})

\* No string is being put through the codec.
NoCodec == [pc |-> "idle"]

\* The module initialisation of the running process has completed on the
\* 64 hex characters of secretKey.
Started == [pc |-> "ready", env |-> Str(secretKey), key |-> ENCRYPTION_KEY]

\* No other invocation context is serving a request.
NoInflight == <<>>

Init ==
  /\ table = [k \in Keys |-> NoRow]
  /\ nextUuid = 1
  /\ req = NoEvent
  /\ resp = NoResponse
  /\ calls = <<>>
  /\ codec = NoCodec
  /\ boot = Started
  /\ inflight = NoInflight

Serve(event, o) ==
  /\ req' = event
  /\ resp' = o.resp
  /\ table' = o.table
  /\ calls' = o.calls
  /\ nextUuid' = o.uuid
  /\ UNCHANGED others

Post ==
  /\ req = NoEvent
  /\ \E body \in Bodies :
    /\ PostEncrypts(body) # {} => nextUuid <= MaxIds
    /\ \E iv \in IvChoices(PostEncrypts(body)) :
         Serve(Event("POST", NullQuery, body),
               HandlePost(table, nextUuid, body, iv))

Get ==
  /\ req = NoEvent
  /\ \E query \in FilterQueries :
    Serve(Event("GET", query, NoBody), HandleGet(table, nextUuid, query))

Put ==
  /\ req = NoEvent
  /\ \E query \in IdQueries, body \in Bodies :
       /\ (query.isNull \/ Falsy(query.id)) => body \in UnreadBodies
       /\ \E iv \in IvChoices(PutEncrypts(query, body)) :
            Serve(Event("PUT", query, body),
                  HandlePut(table, nextUuid, query, body, iv))

Delete ==
  /\ req = NoEvent
  /\ \E query \in IdQueries :
    Serve(Event("DELETE", query, NoBody),
          HandleDelete(table, nextUuid, query))

MethodNotAllowed ==
  /\ req = NoEvent
  /\ \E method \in OtherMethods :
    Serve(Event(method, NullQuery, NoBody),
          Outcome(MethodNotAllowedResponse, table, <<>>, nextUuid))

\* The response goes back to the caller; the context is free again.
Return ==
  /\ req # NoEvent
  /\ req' = NoEvent
  /\ resp' = NoResponse
  /\ calls' = <<>>
  /\ UNCHANGED <<table, nextUuid>>
  /\ UNCHANGED others

Next == Post \/ Get \/ Put \/ Delete \/ MethodNotAllowed \/ Return

Spec == Init /\ [][Next]_vars

\* ------------------------------------------------------------------------
\* The plain handler on the same table (src/lambda/handler.ts)
\* ------------------------------------------------------------------------

\* JSON values a caller of the plain handler sends: it stores them as given.
PlainNameInputs == {Undefined, Str(<<"a", "b">>), Num(5)}

PlainStockInputs == {Undefined, Num(1)}

PlainPriceInputs == {Undefined, Num(2)}

\* if (!name || !stock || !price)
PlainPostMissing(f) == Falsy(f.name) \/ Falsy(f.stock) \/ Falsy(f.price)

\* if (name) ...; if (stock) ...; if (price) ...
PlainUpdateAssigned(f) == {x \in Fields : ~Falsy(f[x])}

\* POST of the plain handler: puts { id, name, stock, price } as received.
\* Its response goes to its own caller and is not part of this model.
PlainPost ==
  /\ req = NoEvent
  /\ nextUuid <= MaxIds
  /\ \E name \in PlainNameInputs, stock \in PlainStockInputs,
        price \in PlainPriceInputs :
       LET f == [name |-> name, stock |-> stock, price |-> price]
       IN  /\ ~PlainPostMissing(f)
           /\ table' = DynamoPut(table, [id |-> Str(uuidv4(nextUuid)),
                                         name |-> name, stock |-> stock,
                                         price |-> price])
           /\ nextUuid' = nextUuid + 1
           /\ UNCHANGED <<req, resp, calls>>
           /\ UNCHANGED others

\* PUT of the plain handler: the same conditional SET, of the values as
\* received.
PlainPut ==
  /\ req = NoEvent
  /\ \E k \in Keys, name \in PlainNameInputs, stock \in PlainStockInputs,
        price \in PlainPriceInputs :
       LET f == [name |-> name, stock |-> stock, price |-> price]
       IN  /\ PlainUpdateAssigned(f) # {}
           /\ table' = DynamoUpdate(table, k, PlainUpdateAssigned(f), f).table
           /\ UNCHANGED <<nextUuid, req, resp, calls>>
           /\ UNCHANGED others

NextShared == Next \/ PlainPost \/ PlainPut

SpecShared == Init /\ [][NextShared]_vars

\* ------------------------------------------------------------------------
\* encrypt and decrypt applied to a string
\* ------------------------------------------------------------------------

CodecAlphabet == {"a", "0", ":", ReplacementChar, LoneSurrogate}

\* Every string over alphabet of length n.
StringsOf(alphabet, n) == [1..n -> alphabet]

\* Lengths around the cipher's block size: the padding fills the last block
\* or adds a whole one.
BlockLengths == {IV_LENGTH - 1, IV_LENGTH, IV_LENGTH + 1, 2 * IV_LENGTH}

CodecTexts ==
  UNION {StringsOf(CodecAlphabet, n) : n \in 0..MaxTextLen}
    \cup {[i \in 1..n |-> IF i % 3 = 0 THEN ":" ELSE "a"] : n \in BlockLengths}

\* The handler is idle and started; no other context runs.
Quiet ==
  /\ table = [k \in Keys |-> NoRow]
  /\ nextUuid = 1
  /\ req = NoEvent
  /\ resp = NoResponse
  /\ calls = <<>>

InitCodec ==
  /\ Quiet
  /\ boot = Started
  /\ inflight = NoInflight
  /\ codec \in {[pc |-> "start", text |-> t] : t \in CodecTexts}

\* encrypt(text)
Encrypt ==
  /\ codec.pc = "start"
  /\ \E iv \in RandomBytes :
       codec' = [pc |-> "encrypted", text |-> codec.text,
                 cipher |-> Str(encrypt(codec.text, iv))]
  /\ UNCHANGED <<table, nextUuid, req, resp, calls, boot, inflight>>

\* decrypt(encrypt(text))
Decrypt ==
  /\ codec.pc = "encrypted"
  /\ codec' = [pc |-> "decrypted", text |-> codec.text,
               cipher |-> codec.cipher, plain |-> decrypt(codec.cipher)]
  /\ UNCHANGED <<table, nextUuid, req, resp, calls, boot, inflight>>

NextCodec == Encrypt \/ Decrypt

SpecCodec == InitCodec /\ [][NextCodec]_vars

\* ------------------------------------------------------------------------
\* decryptItem applied to a stored row
\* ------------------------------------------------------------------------

\* hex(iv):hex(ciphertext) of "ab" and of "1" under the key.
GoodText == Str(CipherOf(<<"a", "b">>, DefaultIv))

GoodNumber == Str(CipherOf(<<"1">>, DefaultIv))

\* The same with the last hex digit of the ciphertext changed: the padding
\* of the last block no longer checks.
Tampered ==
  LET c == GoodNumber.str
  IN  Str([c EXCEPT ![Len(c)] = IF c[Len(c)] = "0" THEN "1" ELSE "0"])

\* The same cut short: the ciphertext is no whole number of blocks.
Truncated == Str(SubSeq(GoodNumber.str, 1, Len(GoodNumber.str) - 2))

\* What an attribute of a stored row can hold: a cipher string of this key,
\* a damaged one, a string with a short iv part, a plain string, a number,
\* or nothing (the attribute is missing).
StoredValues ==
  {GoodText, GoodNumber, Tampered, Truncated, Str(<<"a", "b", ":", "c", "d">>),
   Str(<<"a", "b">>), Num(1), Undefined}

StoredRows ==
  {[id |-> Str(uuidv4(1)), name |-> n, stock |-> st, price |-> p] :
     n \in StoredValues, st \in StoredValues, p \in StoredValues}

InitRows ==
  /\ Quiet
  /\ boot = Started
  /\ inflight = NoInflight
  /\ codec \in {[pc |-> "row", item |-> r] : r \in StoredRows}

\* decryptItem(item), as result.Items.map(decryptItem) calls it.
DecryptItem ==
  /\ codec.pc = "row"
  /\ codec' = [pc |-> "mapped", item |-> codec.item,
               result |-> decryptItem(codec.item)]
  /\ UNCHANGED <<table, nextUuid, req, resp, calls, boot, inflight>>

\* The mapped row is dropped and the next stored row is read.
NextRow ==
  /\ codec.pc = "mapped"
  /\ \E r \in StoredRows : codec' = [pc |-> "row", item |-> r]
  /\ UNCHANGED <<table, nextUuid, req, resp, calls, boot, inflight>>

NextRows == DecryptItem \/ NextRow

SpecRows == InitRows /\ [][NextRows]_vars

\* ------------------------------------------------------------------------
\* Module initialisation on any AES_SECRET_KEY
\* ------------------------------------------------------------------------

\* Positions of a 64-character value at which a character that is no hex
\* digit is put.
BadPositions == {1, 2, KEY_LENGTH, 2 * KEY_LENGTH - 1, 2 * KEY_LENGTH}

\* Values of process.env.AES_SECRET_KEY: not set, empty, the 64 hex
\* characters of secretKey, hex strings of other lengths, and 64-character
\* strings with one or every character that is no hex digit.
EnvValues ==
  {Undefined, Str(<<>>), Str(secretKey)}
    \cup {Str(SubSeq(secretKey, 1, n)) :
            n \in {1, KEY_LENGTH, 2 * KEY_LENGTH - 2, 2 * KEY_LENGTH - 1}}
    \cup {Str(secretKey \o SubSeq(secretKey, 1, n)) :
            n \in {1, 2, 2 * KEY_LENGTH}}
    \cup {Str([secretKey EXCEPT ![p] = ":"]) : p \in BadPositions}
    \cup {Str([i \in 1..(2 * KEY_LENGTH) |-> ":"])}

InitStartup ==
  /\ Quiet
  /\ codec = NoCodec
  /\ inflight = NoInflight
  /\ boot \in {[pc |-> "loading", env |-> v] : v \in EnvValues}

\* Module scope: if (!secretKey || secretKey.length !== 64) throw ...;
\* const ENCRYPTION_KEY = Buffer.from(secretKey, 'hex');
Initialise ==
  /\ boot.pc = "loading"
  /\ boot' = IF Falsy(boot.env) \/ Len(boot.env.str) # 2 * KEY_LENGTH
             THEN [pc |-> "aborted", env |-> boot.env]
             ELSE [pc |-> "ready", env |-> boot.env,
                   key |-> HexDecode(boot.env.str)]
  /\ UNCHANGED <<table, nextUuid, req, resp, calls, codec, inflight>>

\* createCipheriv('aes-256-cbc', key, iv) raises on a key that is not
\* KEY_LENGTH bytes.
KeyAccepted(key) == Len(key) = KEY_LENGTH

\* POST served by the process as it started.  uuidv4() is called, then
\* encrypt: with a key createCipheriv does not accept the call raises and
\* the handler's catch answers 500.  A key of KEY_LENGTH bytes is, among
\* EnvValues, the key of secretKey, and the request is served as in Spec.
PostStarted ==
  /\ req = NoEvent
  /\ boot.pc = "ready"
  /\ \E body \in Bodies :
       /\ PostEncrypts(body) # {} => nextUuid <= MaxIds
       /\ \E iv \in IvChoices(PostEncrypts(body)) :
            Serve(Event("POST", NullQuery, body),
                  IF PostEncrypts(body) # {} /\ ~KeyAccepted(boot.key)
                  THEN Outcome(ErrorResponse(500, "Failed to create item"),
                               table, <<>>, nextUuid + 1)
                  ELSE HandlePost(table, nextUuid, body, iv))

NextStartup == Initialise \/ PostStarted \/ Return

SpecStartup == InitStartup /\ [][NextStartup]_vars

\* ------------------------------------------------------------------------
\* Two invocation contexts serving PUT on the same table
\* ------------------------------------------------------------------------

\* Each context serves one PUT in a behaviour.
Contexts == {1, 2}

OtherIv == CHOOSE iv \in RandomBytes : iv # DefaultIv

\* The draws of randomBytes in a context: the two contexts draw different
\* values, so that their cipher strings of one text differ.
IvOf(c) == [x \in Fields |-> IF c = 1 THEN DefaultIv ELSE OtherIv]

\* A record created earlier by POST {name: "cd", stock: 5, price: 7}.
ExistingRecord ==
  NewItem(uuidv4(1),
          [name |-> Str(<<"c", "d">>), stock |-> Num(5), price |-> Num(7)],
          [x \in Fields |-> DefaultIv])

IdleContext == [pc |-> "idle"]

InitConcurrent ==
  /\ table = DynamoPut([k \in Keys |-> NoRow], ExistingRecord)
  /\ nextUuid = 2
  /\ req = NoEvent
  /\ resp = NoResponse
  /\ calls = <<>>
  /\ codec = NoCodec
  /\ boot = Started
  /\ inflight = [c \in Contexts |-> IdleContext]

\* PUT up to its storage call: the id and body checks, the update
\* expression and the encrypted values (lines 189-219).  Requests that are
\* answered before the storage call take no part in the race.  began is the
\* number of requests that had begun before this one.
PutBegin(c) ==
  /\ inflight[c].pc = "idle"
  /\ \E k \in Keys, body \in Bodies :
       LET query == Query(Str(k), Undefined)
           assigned == PutEncrypts(query, body)
       IN  /\ ~NoFields(assigned)
           /\ inflight' =
                [inflight EXCEPT ![c] =
                   [pc |-> "calling", key |-> k, body |-> body,
                    assigned |-> assigned,
                    values |-> ExpressionValues(ParseFields(body), assigned,
                                                IvOf(c)),
                    began |-> Cardinality({d \in Contexts :
                                             inflight[d].pc # "idle"})]]
  /\ UNCHANGED <<table, nextUuid, req, resp, calls, codec, boot>>

\* await dynamoDb.update(...).promise() and the response built from its
\* result (lines 221-241): the storage backend applies one call at a time.
\* applied is the position of the call among the calls the table received.
PutApply(c) ==
  /\ inflight[c].pc = "calling"
  /\ LET r == inflight[c]
         result == DynamoUpdate(table, r.key, r.assigned, r.values)
     IN  /\ table' = result.table
         /\ calls' = Append(calls, Call("update", r.key, r.assigned, r.values))
         /\ inflight' =
              [inflight EXCEPT ![c] =
                 [pc |-> "answered", key |-> r.key, body |-> r.body,
                  assigned |-> r.assigned, values |-> r.values,
                  began |-> r.began, applied |-> Len(calls) + 1,
                  resp |-> IF result.failed
                           THEN ErrorResponse(404, "Item not found")
                           ELSE ItemResponse(200,
                                             decryptItem(result.Attributes))]]
  /\ UNCHANGED <<nextUuid, req, resp, codec, boot>>

NextConcurrent == \E c \in Contexts : PutBegin(c) \/ PutApply(c)

SpecConcurrent == InitConcurrent /\ [][NextConcurrent]_vars

\* ------------------------------------------------------------------------
\* Properties
\* ------------------------------------------------------------------------

\* The request carries an id: the query object is there and its id is truthy.
HasId(query) == ~query.isNull /\ ~Falsy(query.id)

\* The keys among name, stock, price that a body supplies.
SuppliedKeys(body) ==
  IF body.text = "object" THEN {x \in Fields : ~IsUndefined(body[x])} ELSE {}

RowsOf(t) == {k \in DOMAIN t : IsRow(t[k])}

\* A handler action has just served an event.
Served(method) == req.httpMethod = method

\* The step serves an event of this method.
Serves(method) == req = NoEvent /\ req'.httpMethod = method

AllHex(s) == \A i \in 1..Len(s) : IsHexChar(s[i])

\* hex(iv) + ":" + hex(ciphertext): 2 * IV_LENGTH hex digits, one ':', then
\* the hex digits of one or more whole blocks.
CipherForm(v) ==
  /\ IsStr(v)
  /\ LET c == FirstColon(v.str, 1)
     IN  /\ c = 2 * IV_LENGTH + 1
         /\ Len(v.str) > c
         /\ (Len(v.str) - c) % (2 * IV_LENGTH) = 0
         /\ AllHex(SubSeq(v.str, 1, c - 1))
         /\ AllHex(SubSeq(v.str, c + 1, Len(v.str)))

\* CipherForm is computed once for the cipher strings of the model;
\* IsSerializedCipher looks a value up and falls back on CipherForm for any
\* other value.
CipherFormTable ==
  {[value |-> Str(e.cipher), form |-> CipherForm(Str(e.cipher))] :
     e \in CipherTable}

IsSerializedCipher(v) ==
  IF \E e \in CipherFormTable : e.value = v
  THEN (CHOOSE e \in CipherFormTable : e.value = v).form
  ELSE CipherForm(v)

\* The string holds no unpaired surrogate.
WellFormed(s) == \A i \in 1..Len(s) : s[i] # LoneSurrogate

\* C1: in a PUT that reaches the update builder (it carries an id and a JSON
\* object), each of name, stock, price is assigned its encrypted new value
\* in the storage update exactly when the body supplies the key, whatever
\* the value.  The code tests name for truthiness: a body with name "" does
\* not assign name.
C1_SuppliedFieldsAssigned ==
  (Served("PUT") /\ HasId(req.queryStringParameters) /\ req.body.text = "object")
    => \A x \in Fields :
         LET assignedInUpdate ==
               \E i \in 1..Len(calls) :
                 calls[i].op = "update" /\ x \in calls[i].assigned
         IN  IF x \in SuppliedKeys(req.body)
             THEN \E i \in 1..Len(calls) :
                    /\ calls[i].op = "update"
                    /\ x \in calls[i].assigned
                    /\ PlainOf(calls[i].values[x]) = Str(String(req.body[x]))
             ELSE ~assignedInUpdate

\* C2: a POST whose JSON object misses one of name, stock, price returns 400
\* and writes nothing; one that supplies all three returns 201 and writes
\* exactly one new row.  The code rejects a supplied name that is "".
C2_CreateValidatesPresence ==
  [][(Serves("POST") /\ req'.body.text = "object")
       => IF SuppliedKeys(req'.body) # Fields
          THEN resp'.statusCode = 400 /\ table' = table /\ calls' = <<>>
          ELSE /\ resp'.statusCode = 201
               /\ Cardinality(RowsOf(table') \ RowsOf(table)) = 1
               /\ \A k \in RowsOf(table) : table'[k] = table[k]]_vars

\* C3: a PUT whose body supplies none of name, stock, price issues no
\* storage call and leaves the table as it was; when it carries an id and
\* its body is a JSON object, the response is 400 'No fields to update'.
C3_EmptyUpdateRejected ==
  [][(Serves("PUT") /\ SuppliedKeys(req'.body) = {})
       => /\ calls' = <<>>
          /\ table' = table
          /\ (HasId(req'.queryStringParameters) /\ req'.body.text = "object")
               => /\ resp'.statusCode = 400
                  /\ resp'.error = "No fields to update"]_vars

\* C3 witness: an empty update of a record that exists was rejected.
C3_Witness ==
  /\ Served("PUT")
  /\ HasId(req.queryStringParameters)
  /\ req.body.text = "object"
  /\ SuppliedKeys(req.body) = {}
  /\ IsRow(Lookup(table, req.queryStringParameters.id.str))
  /\ resp.statusCode = 400
  /\ resp.error = "No fields to update"

\* C4: a PUT on an id that is not in the table, with at least one field
\* supplied, returns 404 and leaves every record as it was.  With name ""
\* as the only field the code returns 400 (see C1).
C4_UpdateAbsentIsNotFound ==
  [][(/\ Serves("PUT")
      /\ HasId(req'.queryStringParameters)
      /\ SuppliedKeys(req'.body) # {}
      /\ ~IsRow(Lookup(table, req'.queryStringParameters.id.str)))
       => resp'.statusCode = 404 /\ table' = table]_vars

\* The plain record a stored row is the encryption of.
IsPlainOf(item, row) ==
  /\ item.id = row.id
  /\ IsStr(item.name)
  /\ \E iv \in RandomBytes : Str(CipherOf(item.name.str, iv)) = row.name
  /\ IsNum(item.stock)
  /\ \E iv \in RandomBytes :
       Str(CipherOf(DecimalString(item.stock.num), iv)) = row.stock
  /\ IsNum(item.price)
  /\ \E iv \in RandomBytes :
       Str(CipherOf(DecimalString(item.price.num), iv)) = row.price

\* C5: a DELETE on an id that is present removes that record and no other
\* and returns 200 with the plain form of the row as it was stored; a DELETE
\* on an id that is not present returns 404 and changes nothing; and an id
\* that is not present stays so until a POST creates a record, so that a
\* second DELETE of the same id is not found.
C5_DeleteOnceThenNotFound ==
  [][/\ (Serves("DELETE") /\ HasId(req'.queryStringParameters))
          => LET k == req'.queryStringParameters.id.str
             IN  IF IsRow(Lookup(table, k))
                 THEN /\ resp'.statusCode = 200
                      /\ table' = [table EXCEPT ![k] = NoRow]
                      /\ IsPlainOf(resp'.item, table[k])
                 ELSE /\ resp'.statusCode = 404
                      /\ table' = table
      /\ \A j \in DOMAIN table :
           (~IsRow(table[j]) /\ IsRow(table'[j])) => req'.httpMethod = "POST"]_vars

\* C5 witness: a record was created and deleted, and now a DELETE of its id
\* was answered 404 while another record is still stored.
C5_Witness ==
  /\ Served("DELETE")
  /\ HasId(req.queryStringParameters)
  /\ resp.statusCode = 404
  /\ \E n \in 1..(nextUuid - 1) : req.queryStringParameters.id.str = uuidv4(n)
  /\ RowsOf(table) # {}

\* C6: from the empty table, under the encrypted handler's requests, every
\* stored name, stock and price is a serialized cipher string.
C6_StoredFieldsAreCipher ==
  \A k \in RowsOf(table) : \A x \in Fields : IsSerializedCipher(table[k][x])

\* C6 witness: two records are stored and one was just updated.
C6_Witness ==
  /\ Served("PUT")
  /\ resp.statusCode = 200
  /\ Cardinality(RowsOf(table)) = 2

\* C7: a GET returns 200 whatever the stored rows are, with or without a
\* name filter.  With a filter the code calls includes on the name of a row
\* it could not decrypt, which raises when that name is no string.
C7_ReadNeverFails ==
  Served("GET") => resp.statusCode = 200

\* The stored name of the row decrypts.
NameDecrypts(row) == ~IsThrown(PlainOf(row.name))

\* C8: a GET with a name filter that returns 200 returns a record whose
\* stored name decrypts exactly when the plain name contains the filter.
\* The code matches a row it could not decrypt as a whole on its stored
\* name, which is the cipher string.
C8_FilterOnPlaintext ==
  (/\ Served("GET")
   /\ ~req.queryStringParameters.isNull
   /\ ~Falsy(req.queryStringParameters.name)
   /\ resp.statusCode = 200)
    => \A k \in RowsOf(table) :
         NameDecrypts(table[k])
           => ((\E item \in resp.items : item.id = table[k].id)
                 <=> Includes(PlainOf(table[k].name).str,
                              req.queryStringParameters.name.str))

\* C9: every response carries the cross-origin headers.  The 405 response
\* of the code has no headers.
C9_CorsOnEveryResponse ==
  req # NoEvent => resp.headers = CorsHeaders

\* C10: a PUT or DELETE without id (no query object, no id key, or an empty
\* id) returns 400 'Missing required query parameter: id' and issues no
\* storage call.  The code destructures a null query object, which raises.
C10_MissingIdIsBadRequest ==
  ((Served("PUT") \/ Served("DELETE")) /\ ~HasId(req.queryStringParameters))
    => /\ resp.statusCode = 400
       /\ resp.error = "Missing required query parameter: id"
       /\ calls = <<>>

\* C11 as stated: for every string s, decrypt(encrypt(s)) returns s.  A
\* string with an unpaired surrogate comes back with U+FFFD in its place.
C11_RoundTripEveryString ==
  codec.pc = "decrypted" => codec.plain = Str(codec.text)

\* C11: for every string s without unpaired surrogate, encrypt emits
\* hex(iv) + ':' + hex(ciphertext) with a 16-byte iv, and decrypt of it
\* returns s.
C11_RoundTripWellFormed ==
  /\ (codec.pc \in {"encrypted", "decrypted"}) => CipherForm(codec.cipher)
  /\ (codec.pc = "decrypted" /\ WellFormed(codec.text))
       => codec.plain = Str(codec.text)

\* C11 witness: a string of exactly one block, with ':' in it, came back.
C11_Witness ==
  /\ codec.pc = "decrypted"
  /\ Len(codec.text) = IV_LENGTH
  /\ \E i \in 1..Len(codec.text) : codec.text[i] = ":"
  /\ codec.plain = Str(codec.text)

\* C12: a PUT answered 200 changes in storage only fields the body
\* supplies: a field that is not supplied keeps its stored cipher value, id
\* is unchanged, no other record is touched, and the response carries the
\* plain form of the record as stored after the update, with the new value
\* of every supplied field and the previous value of the rest.  A supplied
\* name "" is not assigned (see C1): the response carries the previous name.
C12_UpdateFrame ==
  [][(Serves("PUT") /\ resp'.statusCode = 200)
       => LET k == req'.queryStringParameters.id.str
              supplied == SuppliedKeys(req'.body)
          IN  /\ IsRow(Lookup(table, k))
              /\ IsRow(Lookup(table', k))
              /\ \A j \in DOMAIN table : j # k => table'[j] = table[j]
              /\ table'[k].id = table[k].id
              /\ \A x \in Fields \ supplied : table'[k][x] = table[k][x]
              /\ IsPlainOf(resp'.item, table'[k])
              /\ \A x \in supplied : resp'.item[x] = req'.body[x]
              /\ \A x \in Fields \ supplied :
                   resp'.item[x] = decryptItem(table[k])[x]]_vars

\* C13: decryptItem returns the row with name decrypted and stock and
\* price decrypted and converted to numbers when all three decrypt, and the
\* row itself, every field as stored, when any one of them does not; it
\* never raises.
C13_DecryptItemAllOrNothing ==
  codec.pc = "mapped"
    => LET item == codec.item
           result == codec.result
           decrypts(x) == ~IsThrown(decrypt(item[x]))
       IN  /\ ~IsThrown(result)
           /\ result.id = item.id
           /\ IF \A x \in Fields : decrypts(x)
              THEN /\ result.name = decrypt(item.name)
                   /\ result.stock = Number(decrypt(item.stock).str)
                   /\ result.price = Number(decrypt(item.price).str)
              ELSE result = item

\* C13 witness: the name of the row decrypts, its price does not, and the
\* row came back with its name still in cipher form.
C13_Witness ==
  /\ codec.pc = "mapped"
  /\ ~IsThrown(decrypt(codec.item.name))
  /\ ~IsThrown(decrypt(codec.item.stock))
  /\ IsThrown(decrypt(codec.item.price))
  /\ codec.result.name = codec.item.name
  /\ CipherForm(codec.result.name)

\* The value is 64 hex characters.
IsHexKey(env) ==
  IsStr(env) /\ Len(env.str) = 2 * KEY_LENGTH /\ AllHex(env.str)

\* C14: once the module initialisation has completed the key is exactly
\* 32 bytes; a value of AES_SECRET_KEY that is not 64 hex characters aborts
\* the initialisation; and no request fails on the key.  The code checks
\* the length of the value only: 64 characters that are not all hex pass,
\* the key is shorter than 32 bytes, and every encrypt raises.
C14_KeyFailsAtStartupOnly ==
  /\ boot.pc = "ready" => Len(boot.key) = KEY_LENGTH
  /\ (boot.pc # "loading" /\ ~IsHexKey(boot.env)) => boot.pc = "aborted"
  /\ (Served("POST") /\ PostEncrypts(req.body) # {}) => resp.statusCode = 201

\* Both contexts have been answered 200 for a PUT on the same id.
BothUpdated ==
  \A c \in Contexts :
    /\ inflight[c].pc = "answered"
    /\ inflight[c].resp.statusCode = 200
    /\ inflight[c].key = inflight[1].key

\* The cipher string the request of context c writes for field x.
Written(c, x) ==
  Str(CipherOf(String(inflight[c].body[x]), IvOf(c)[x]))

\* C15: when two PUT requests on the same existing id have both been
\* applied, in whatever order they began and were applied, the stored
\* record holds, for every field one request alone supplies, that request's
\* new value, and for a field both supply, the value of the request whose
\* storage call was applied last.  A supplied name "" is never written
\* (see C1).
C15_ConcurrentUpdates ==
  BothUpdated
    => LET row == table[inflight[1].key]
           last == CHOOSE c \in Contexts :
                     \A d \in Contexts : inflight[d].applied <= inflight[c].applied
       IN  \A x \in Fields :
             LET writers == {c \in Contexts : x \in SuppliedKeys(inflight[c].body)}
             IN  /\ \A c \in Contexts : writers = {c} => row[x] = Written(c, x)
                 /\ writers = Contexts => row[x] = Written(last, x)

====
